---- MODULE Spec2Model ----
(***************************************************************************)
(* Military Monitor (src/monitor.py): the refresh pipeline of the TUI --   *)
(* FilterPanel (filter set and type classifier), DebugLog, and the         *)
(* MilitaryMonitor handlers that fetch, store, project and log.            *)
(*                                                                         *)
(* Strings the code inspects character by character (type codes,           *)
(* callsigns) are sequences of one-character strings.  Every handler is a  *)
(* synchronous callback on the single event-loop thread; the only place a  *)
(* handler is split is the blocking requests.get call of                   *)
(* fetch_aircraft_data, during which the loop thread is occupied.          *)
(***************************************************************************)
EXTENDS Integers, Sequences, FiniteSets, TLC

(* ------------------------------ bounds --------------------------------- *)
\* user inputs (checkbox clicks and key presses) in one run
MaxInputs == 2
\* categories whose checkbox the user clicks: the first NToggleCats of CATEGORIES
NToggleCats == 2
\* characters that follow a declared prefix in a classified type code
MaxSuffix == 1

VARIABLES
  aircraft_data,    \* MilitaryMonitor.aircraft_data: list of MilitaryAircraft
  table_rows,       \* rows of the AircraftTable widget
  alerts_content,   \* content of the #alerts-content Static
  lines,            \* DebugLog.lines
  active_filters,   \* FilterPanel.active_filters (one set object, mutated in place)
  checkbox_value,   \* value of each filter_<key> Checkbox
  panel_queue,      \* Checkbox.Changed messages not yet handled by FilterPanel
  app_queue,        \* FilterPanel.FiltersChanged messages not yet handled by the app
  key_queue,        \* key-binding actions not yet run
  timer,            \* the set_timer(10, ...) timer: "unset", "armed" or "fired"
  inflight,         \* refresh cycles inside requests.get, by what started them
  mounted,          \* on_mount has run
  exited,           \* the app has quit
  n_inputs,         \* user inputs so far
  icao_type,        \* argument of a map_type_to_category call
  category          \* its result

vars == <<aircraft_data, table_rows, alerts_content, lines, active_filters,
          checkbox_value, panel_queue, app_queue, key_queue, timer, inflight,
          mounted, exited, n_inputs, icao_type, category>>

(* ------------------------------ strings -------------------------------- *)
LowerChars == <<"a","b","c","d","e","f","g","h","i","j","k","l","m",
                "n","o","p","q","r","s","t","u","v","w","x","y","z">>
UpperChars == <<"A","B","C","D","E","F","G","H","I","J","K","L","M",
                "N","O","P","Q","R","S","T","U","V","W","X","Y","Z">>

\* Python None
None == <<"None">>

\* str.upper(), one character
UpperChar(ch) ==
  IF \E i \in 1..Len(LowerChars) : LowerChars[i] = ch
  THEN UpperChars[CHOOSE i \in 1..Len(LowerChars) : LowerChars[i] = ch]
  ELSE ch

\* str.lower(), one character
LowerChar(ch) ==
  IF \E i \in 1..Len(UpperChars) : UpperChars[i] = ch
  THEN LowerChars[CHOOSE i \in 1..Len(UpperChars) : UpperChars[i] = ch]
  ELSE ch

upper(s) == [i \in 1..Len(s) |-> UpperChar(s[i])]

lower(s) == [i \in 1..Len(s) |-> LowerChar(s[i])]

startswith(s, prefix) ==
  /\ Len(prefix) <= Len(s)
  /\ \A i \in 1..Len(prefix) : s[i] = prefix[i]

(* --------------------------- FilterPanel data --------------------------- *)
\* keys of FilterPanel.CATEGORIES, in declaration order
CATEGORIES ==
  <<"fighter", "bomber", "tanker", "transport", "awacs",
    "helicopter", "uav", "special", "trainer", "other">>

CategoryKeys == {CATEGORIES[i] : i \in 1..Len(CATEGORIES)}

\* FilterPanel.TYPE_TO_CATEGORY, in declaration (= dict iteration) order
TYPE_TO_CATEGORY ==
  <<
    [prefix |-> <<"F", "1", "4">>, cat |-> "fighter"],
    [prefix |-> <<"F", "1", "5">>, cat |-> "fighter"],
    [prefix |-> <<"F", "1", "6">>, cat |-> "fighter"],
    [prefix |-> <<"F", "1", "8">>, cat |-> "fighter"],
    [prefix |-> <<"F", "2", "2">>, cat |-> "fighter"],
    [prefix |-> <<"F", "3", "5">>, cat |-> "fighter"],
    [prefix |-> <<"F", "A", "1", "8">>, cat |-> "fighter"],
    [prefix |-> <<"F", "/", "A">>, cat |-> "fighter"],
    [prefix |-> <<"T", "Y", "P", "H">>, cat |-> "fighter"],
    [prefix |-> <<"E", "U", "F", "I">>, cat |-> "fighter"],
    [prefix |-> <<"T", "O", "R", "N">>, cat |-> "fighter"],
    [prefix |-> <<"G", "R", "I", "P">>, cat |-> "fighter"],
    [prefix |-> <<"S", "U", "2", "7">>, cat |-> "fighter"],
    [prefix |-> <<"S", "U", "3", "0">>, cat |-> "fighter"],
    [prefix |-> <<"S", "U", "3", "5">>, cat |-> "fighter"],
    [prefix |-> <<"S", "U", "5", "7">>, cat |-> "fighter"],
    [prefix |-> <<"M", "I", "G", "2", "9">>, cat |-> "fighter"],
    [prefix |-> <<"M", "I", "G", "3", "1">>, cat |-> "fighter"],
    [prefix |-> <<"M", "I", "G", "3", "5">>, cat |-> "fighter"],
    [prefix |-> <<"J", "2", "0">>, cat |-> "fighter"],
    [prefix |-> <<"B", "1">>, cat |-> "bomber"],
    [prefix |-> <<"B", "2">>, cat |-> "bomber"],
    [prefix |-> <<"B", "5", "2">>, cat |-> "bomber"],
    [prefix |-> <<"T", "U", "9", "5">>, cat |-> "bomber"],
    [prefix |-> <<"T", "U", "1", "6", "0">>, cat |-> "bomber"],
    [prefix |-> <<"T", "U", "2", "2">>, cat |-> "bomber"],
    [prefix |-> <<"H", "6">>, cat |-> "bomber"],
    [prefix |-> <<"K", "C", "1", "0">>, cat |-> "tanker"],
    [prefix |-> <<"K", "C", "1", "3", "5">>, cat |-> "tanker"],
    [prefix |-> <<"K", "C", "4", "6">>, cat |-> "tanker"],
    [prefix |-> <<"K", "3", "5", "R">>, cat |-> "tanker"],
    [prefix |-> <<"A", "3", "3", "2">>, cat |-> "tanker"],
    [prefix |-> <<"I", "L", "7", "8">>, cat |-> "tanker"],
    [prefix |-> <<"A", "3", "1", "0">>, cat |-> "tanker"],
    [prefix |-> <<"C", "1", "3", "0">>, cat |-> "transport"],
    [prefix |-> <<"C", "1", "7">>, cat |-> "transport"],
    [prefix |-> <<"C", "5">>, cat |-> "transport"],
    [prefix |-> <<"A", "4", "0", "0">>, cat |-> "transport"],
    [prefix |-> <<"I", "L", "7", "6">>, cat |-> "transport"],
    [prefix |-> <<"A", "N", "1", "2">>, cat |-> "transport"],
    [prefix |-> <<"A", "N", "2", "2">>, cat |-> "transport"],
    [prefix |-> <<"A", "N", "1", "2", "4">>, cat |-> "transport"],
    [prefix |-> <<"A", "N", "2", "2", "5">>, cat |-> "transport"],
    [prefix |-> <<"E", "3">>, cat |-> "awacs"],
    [prefix |-> <<"E", "8">>, cat |-> "awacs"],
    [prefix |-> <<"A", "5", "0">>, cat |-> "awacs"],
    [prefix |-> <<"K", "J">>, cat |-> "awacs"],
    [prefix |-> <<"R", "J", "3", "5">>, cat |-> "awacs"],
    [prefix |-> <<"R", "C", "1", "3", "5">>, cat |-> "special"],
    [prefix |-> <<"U", "2">>, cat |-> "special"],
    [prefix |-> <<"H", "6", "0">>, cat |-> "helicopter"],
    [prefix |-> <<"A", "H", "6", "4">>, cat |-> "helicopter"],
    [prefix |-> <<"C", "H", "4", "7">>, cat |-> "helicopter"],
    [prefix |-> <<"U", "H", "6", "0">>, cat |-> "helicopter"],
    [prefix |-> <<"K", "A", "5", "2">>, cat |-> "helicopter"],
    [prefix |-> <<"M", "I", "2", "4">>, cat |-> "helicopter"],
    [prefix |-> <<"M", "I", "2", "8">>, cat |-> "helicopter"],
    [prefix |-> <<"M", "I", "8">>, cat |-> "helicopter"],
    [prefix |-> <<"R", "Q", "4">>, cat |-> "uav"],
    [prefix |-> <<"M", "Q", "9">>, cat |-> "uav"],
    [prefix |-> <<"G", "L", "O", "B">>, cat |-> "uav"],
    [prefix |-> <<"R", "E", "A", "P">>, cat |-> "uav"],
    [prefix |-> <<"T", "B", "2">>, cat |-> "uav"],
    [prefix |-> <<"W", "I", "N", "G">>, cat |-> "uav"],
    [prefix |-> <<"T", "3", "8">>, cat |-> "trainer"],
    [prefix |-> <<"H", "A", "W", "K">>, cat |-> "trainer"],
    [prefix |-> <<"L", "3", "9">>, cat |-> "trainer"],
    [prefix |-> <<"M", "3", "4", "6">>, cat |-> "trainer"],
    [prefix |-> <<"O", "C", "1", "3", "5">>, cat |-> "special"],
    [prefix |-> <<"W", "C", "1", "3", "5">>, cat |-> "special"]
  >>

(* ----------------------------- classifier ------------------------------ *)
\* ScanTable returning the last matching entry's category instead of the first
ScanTableLastMatch(code, i) ==
  LET hits == {j \in i..Len(TYPE_TO_CATEGORY) : startswith(code, TYPE_TO_CATEGORY[j].prefix)}
  IN  IF hits = {} THEN "other"
      ELSE TYPE_TO_CATEGORY[CHOOSE j \in hits : \A k \in hits : k <= j].cat

\* the iterations lo..hi of the for loop of map_type_to_category, in order: the
\* entry at which the loop returns, 0 if it runs through them all (the range
\* is scanned as its first half, then its second)
RECURSIVE FirstMatch(_, _, _)
FirstMatch(code, lo, hi) ==
  IF lo > hi THEN 0
  ELSE IF lo = hi
       THEN IF startswith(code, TYPE_TO_CATEGORY[lo].prefix) THEN lo ELSE 0
  ELSE LET mid == (lo + hi) \div 2
           first == FirstMatch(code, lo, mid)
       IN  IF first # 0 THEN first ELSE FirstMatch(code, mid + 1, hi)

\* ScanTable with a fall-through tag that is no key of CATEGORIES
ScanTableUnknown(code, i) ==
  LET hit == FirstMatch(code, i, Len(TYPE_TO_CATEGORY))
  IN  IF hit = 0 THEN "unknown" ELSE TYPE_TO_CATEGORY[hit].cat

\* the for loop of map_type_to_category from table entry i on, and the
\* return "other" after it
ScanTable(code, i) ==
  LET hit == FirstMatch(code, i, Len(TYPE_TO_CATEGORY))
  IN  IF hit = 0 THEN "other" ELSE TYPE_TO_CATEGORY[hit].cat

map_type_to_category(t) ==
  IF t = None \/ t = <<>> THEN "other"
  ELSE ScanTable(upper(t), 1)

(* ------------------------------ the feed ------------------------------- *)
\* JSON values of an entry's fields; an absent key reads as null (dict.get)
JNull == [tag |-> "null", n |-> 0, s |-> <<>>]

JNum(x) == [tag |-> "num", n |-> x, s |-> <<>>]

JStr(str) == [tag |-> "str", n |-> 0, s |-> str]

\* Python truthiness of a JSON value
Truthy(v) ==
  \/ v.tag = "num" /\ v.n # 0
  \/ v.tag = "str" /\ v.s # <<>>

\* v or default
OrDefault(v, default) == IF Truthy(v) THEN v ELSE default

Whitespace == {" ", "\t", "\n"}

RECURSIVE lstrip(_)
lstrip(s) ==
  IF s # <<>> /\ Head(s) \in Whitespace THEN lstrip(Tail(s)) ELSE s

RECURSIVE rstrip(_)
rstrip(s) ==
  IF s # <<>> /\ s[Len(s)] \in Whitespace THEN rstrip(SubSeq(s, 1, Len(s) - 1)) ELSE s

\* str.strip()
strip(s) == rstrip(lstrip(s))

Digits == <<"0","1","2","3","4","5","6","7","8","9">>

IsDigit(ch) == \E d \in 1..Len(Digits) : Digits[d] = ch

DigitValue(ch) == (CHOOSE d \in 1..Len(Digits) : Digits[d] = ch) - 1

RECURSIVE DecimalValue(_, _)
DecimalValue(s, acc) ==
  IF s = <<>> THEN acc ELSE DecimalValue(Tail(s), 10 * acc + DigitValue(Head(s)))

\* a string float() accepts: here an optionally signed run of decimal digits
\* (surrounding whitespace allowed); every other string of the feed raises
IsNumeral(s) ==
  LET t == strip(s)
      body == IF t # <<>> /\ Head(t) \in {"-", "+"} THEN Tail(t) ELSE t
  IN  body # <<>> /\ \A i \in 1..Len(body) : IsDigit(body[i])

NumeralValue(s) ==
  LET t == strip(s)
  IN  IF Head(t) = "-" THEN 0 - DecimalValue(Tail(t), 0)
      ELSE IF Head(t) = "+" THEN DecimalValue(Tail(t), 0)
      ELSE DecimalValue(t, 0)

\* float(v) raises ValueError on a string that is no numeral
FloatRaises(v) == v.tag = "str" /\ ~IsNumeral(v.s)

\* float(v), where it does not raise
Float(v) == IF v.tag = "num" THEN v.n ELSE NumeralValue(v.s)

GROUND == <<"g","r","o","u","n","d">>

NO_CALL == <<"N","O"," ","C","A","L","L">>

UNKNOWN == <<"U","N","K","N","O","W","N">>

Unknown == <<"U","n","k","n","o","w","n">>

\* the exception the loop body of fetch_aircraft_data raises on entry ac, "" if none
EntryError(ac) ==
  IF ~ac.is_object THEN "AttributeError"                          \* ac.get
  ELSE IF OrDefault(ac.flight, JStr(NO_CALL)).tag # "str"
       THEN "AttributeError"                                      \* .strip()
  ELSE IF ac.alt_baro # JStr(GROUND) /\ FloatRaises(OrDefault(ac.alt_baro, JNum(0)))
       THEN "ValueError"
  ELSE IF FloatRaises(OrDefault(ac.gs, JNum(0))) THEN "ValueError"
  ELSE IF FloatRaises(OrDefault(ac.track, JNum(0))) THEN "ValueError"
  ELSE IF OrDefault(ac.t, JStr(UNKNOWN)).tag # "str"
       THEN "AttributeError"                                      \* .upper()
  ELSE ""

\* the MilitaryAircraft the loop body builds from entry ac
MilitaryAircraft(ac) ==
  LET icao == OrDefault(ac.t, JStr(UNKNOWN)).s
  IN  [callsign      |-> strip(OrDefault(ac.flight, JStr(NO_CALL)).s),
       aircraft_type |-> icao,
       owner         |-> OrDefault(ac.owner, JStr(Unknown)).s,
       altitude      |-> IF ac.alt_baro = JStr(GROUND) THEN 0
                         ELSE Float(OrDefault(ac.alt_baro, JNum(0))),
       speed         |-> Float(OrDefault(ac.gs, JNum(0))),
       heading       |-> Float(OrDefault(ac.track, JNum(0))),
       category      |-> map_type_to_category(icao)]

\* BuildAircraft skipping an entry that raises instead of stopping at it
RECURSIVE BuildAircraftSkipBad(_, _, _)
BuildAircraftSkipBad(ac_list, i, acc) ==
  IF i > Len(ac_list) THEN [error |-> "", new_aircraft |-> acc]
  ELSE IF EntryError(ac_list[i]) # ""
       THEN BuildAircraftSkipBad(ac_list, i + 1, acc)
  ELSE BuildAircraftSkipBad(ac_list, i + 1, Append(acc, MilitaryAircraft(ac_list[i])))

\* the for loop over ac_list from entry i on, new_aircraft so far in acc:
\* the list built, or the first exception
RECURSIVE BuildAircraft(_, _, _)
BuildAircraft(ac_list, i, acc) ==
  IF i > Len(ac_list) THEN [error |-> "", new_aircraft |-> acc]
  ELSE IF EntryError(ac_list[i]) # ""
       THEN [error |-> EntryError(ac_list[i]), new_aircraft |-> acc]
  ELSE BuildAircraft(ac_list, i + 1, Append(acc, MilitaryAircraft(ac_list[i])))

\* what requests.get / raise_for_status / response.json produce
TransportFailures == {"Timeout", "HTTPError", "JSONDecodeError"}

Failure(e) == [error |-> e, has_ac |-> FALSE, ac |-> <<>>]

Document(has_ac, ac_list) == [error |-> "", has_ac |-> has_ac, ac |-> ac_list]

\* the try block of fetch_aircraft_data on a response: the exception caught
\* ("" if none), the list assigned and the count logged
ParseResponse(resp) ==
  IF resp.error # "" THEN [error |-> resp.error, new_aircraft |-> <<>>, count |-> 0]
  ELSE LET ac_list == IF resp.has_ac THEN resp.ac ELSE <<>>
           built == BuildAircraft(ac_list, 1, <<>>)
       IN  [error |-> built.error, new_aircraft |-> built.new_aircraft,
            count |-> Len(ac_list)]

(* ------------------------------ DebugLog ------------------------------- *)
max_lines == 1000

LogLine(msg, n, err) == [msg |-> msg, n |-> n, err |-> err]

\* add_message dropping the newest line of a full log instead of the oldest
add_message_pop_last(log, line) ==
  LET appended == Append(log, line)
  IN  IF Len(appended) > max_lines THEN SubSeq(appended, 1, Len(appended) - 1)
      ELSE appended

\* DebugLog.add_message (the timestamp is not modelled)
add_message(log, line) ==
  LET appended == Append(log, line)
  IN  IF Len(appended) > max_lines THEN Tail(appended) ELSE appended

(* ----------------------------- projection ------------------------------ *)
\* f"{x:,.0f}" of a whole number
FormatGrouped(x) == [fmt |-> ",.0f", n |-> x]

FormatAltitude(a) == IF a = 0 THEN [fmt |-> "Ground", n |-> 0] ELSE FormatGrouped(a)

FormatHeading(h) == [fmt |-> ".0f deg", n |-> h]

\* ac.callsign or "NO CALL"
CallsignOrNoCall(ac) == IF ac.callsign = <<>> THEN NO_CALL ELSE ac.callsign

TableRow(ac) ==
  <<CallsignOrNoCall(ac), ac.aircraft_type, ac.owner,
    FormatAltitude(ac.altitude), FormatGrouped(ac.speed), FormatHeading(ac.heading)>>

\* FilteredRows without the membership test of the list comprehension
RECURSIVE FilteredRowsUnfiltered(_, _, _)
FilteredRowsUnfiltered(data, filters, i) ==
  IF i > Len(data) THEN <<>>
  ELSE <<TableRow(data[i])>> \o FilteredRowsUnfiltered(data, filters, i + 1)

\* the list comprehension and add_row loop of update_aircraft_table, from record i on
RECURSIVE FilteredRows(_, _, _)
FilteredRows(data, filters, i) ==
  IF i > Len(data) THEN <<>>
  ELSE IF data[i].category \in filters
       THEN <<TableRow(data[i])>> \o FilteredRows(data, filters, i + 1)
  ELSE FilteredRows(data, filters, i + 1)

AlertLine(ac) ==
  <<CallsignOrNoCall(ac), ac.aircraft_type, ac.owner,
    FormatGrouped(ac.altitude), FormatGrouped(ac.speed), FormatHeading(ac.heading)>>

offensive_categories == {"fighter", "bomber"}

\* AlertLines reading the filtered records instead of the whole snapshot
RECURSIVE AlertLinesOfFiltered(_, _)
AlertLinesOfFiltered(data, i) ==
  IF i > Len(data) THEN <<>>
  ELSE IF /\ data[i].category \in active_filters
          /\ data[i].category \in offensive_categories /\ data[i].altitude > 0
       THEN <<AlertLine(data[i])>> \o AlertLinesOfFiltered(data, i + 1)
  ELSE AlertLinesOfFiltered(data, i + 1)

\* the loop of update_alerts, from record i on
RECURSIVE AlertLines(_, _)
AlertLines(data, i) ==
  IF i > Len(data) THEN <<>>
  ELSE IF data[i].category \in offensive_categories /\ data[i].altitude > 0
       THEN <<AlertLine(data[i])>> \o AlertLines(data, i + 1)
  ELSE AlertLines(data, i + 1)

\* "No offensive aircraft currently detected."
Placeholder == [placeholder |-> TRUE, alerts |-> <<>>]

\* what update_alerts hands to content.update
AlertsContent(data) ==
  IF AlertLines(data, 1) = <<>> THEN Placeholder
  ELSE [placeholder |-> FALSE, alerts |-> AlertLines(data, 1)]

(* ---------------------------- FilterPanel ------------------------------ *)
\* Toggle whose add branch replaces the set instead of extending it
ToggleReplacing(filters, cat_key, value) ==
  IF value THEN {cat_key} ELSE filters \ {cat_key}

\* Toggle flipping the membership whatever the checkbox value is
ToggleFlipping(filters, cat_key, value) ==
  IF cat_key \in filters THEN filters \ {cat_key} ELSE filters \cup {cat_key}

\* the add / discard of on_checkbox_changed
Toggle(filters, cat_key, value) ==
  IF value THEN filters \cup {cat_key} ELSE filters \ {cat_key}

\* FiltersChanged(self.active_filters): the payload is the set object itself
ActiveFiltersRef == [object |-> "FilterPanel.active_filters"]

\* the set a reference denotes in the current state
Deref(ref) == active_filters

FiltersChanged(filters) == [filters |-> filters]

(* --------------------------- inputs of a run --------------------------- *)
F16 == <<"F","1","6">>

B52_LOWER == <<"b","5","2">>

C130 == <<"C","1","3","0">>

\* feed entries: an airborne fighter, a grounded bomber with only a lower-case
\* type, an airborne transport, and an entry whose altitude float() rejects
Fighter ==
  [is_object |-> TRUE, flight |-> JStr(<<"V","I","P","E","R","1"," ">>), t |-> JStr(F16),
   owner |-> JStr(<<"U","S","A","F">>), alt_baro |-> JNum(30000), gs |-> JNum(450),
   track |-> JNum(90)]

GroundedBomber ==
  [is_object |-> TRUE, flight |-> JNull, t |-> JStr(B52_LOWER),
   owner |-> JNull, alt_baro |-> JStr(GROUND), gs |-> JNum(0), track |-> JNull]

Transport ==
  [is_object |-> TRUE, flight |-> JStr(<<"R","C","H","4","2">>), t |-> JStr(C130),
   owner |-> JStr(<<"U","S","A","F">>), alt_baro |-> JNum(21000), gs |-> JNum(300),
   track |-> JNum(270)]

Unparsable ==
  [is_object |-> TRUE, flight |-> JStr(<<"X">>), t |-> JStr(F16),
   owner |-> JNull, alt_baro |-> JStr(<<"n","/","a">>), gs |-> JNull, track |-> JNull]

\* the responses a fetch of a run can get: each failure of the transport, and
\* documents with no "ac" key, no entry, several entries, and an unparsable
\* entry last and first
Responses ==
  {Failure(e) : e \in TransportFailures}
    \cup { Document(FALSE, <<>>),
           Document(TRUE, <<>>),
           Document(TRUE, <<Fighter, GroundedBomber, Transport>>),
           Document(TRUE, <<Transport, Fighter>>),
           Document(TRUE, <<Fighter, Unparsable>>),
           Document(TRUE, <<Unparsable, Fighter>>) }

ToggleCats == {CATEGORIES[i] : i \in 1..NToggleCats}

KeyActions == {"refresh_now", "clear_debug", "quit"}

\* the try block of fetch_aircraft_data, tabulated over the responses of a run
Parsed == [resp \in Responses |-> ParseResponse(resp)]

NotComputed == "(not computed)"

(* ------------------------------ the app -------------------------------- *)
\* the event-loop thread is not inside a handler: handlers are synchronous,
\* so it is occupied exactly while a cycle sits in requests.get
\* LoopFree if the fetch did not occupy the loop thread
LoopNeverBlocked == TRUE

LoopFree == inflight = <<>>

Running == mounted /\ ~exited

\* the app after MilitaryMonitor() and compose(), before on_mount
InitApp ==
  /\ aircraft_data = <<>>
  /\ table_rows = <<>>
  /\ alerts_content = Placeholder
  /\ lines = <<>>
  /\ active_filters = CategoryKeys
  /\ checkbox_value = [c \in CategoryKeys |-> TRUE]
  /\ panel_queue = <<>>
  /\ app_queue = <<>>
  /\ key_queue = <<>>
  /\ timer = "unset"
  /\ inflight = <<>>
  /\ mounted = FALSE
  /\ exited = FALSE
  /\ n_inputs = 0

Init ==
  /\ InitApp
  /\ icao_type = None
  /\ category = NotComputed

\* on_mount, up to the requests.get of its fetch_and_update call
on_mount ==
  /\ ~mounted /\ ~exited /\ LoopFree
  /\ mounted' = TRUE
  /\ lines' = add_message(add_message(lines,
                 LogLine("Military Monitor started", 0, "")),
                 LogLine("Fetching live military aircraft data from ADSB.lol...", 0, ""))
  /\ timer' = "armed"
  /\ inflight' = Append(inflight, "startup")
  /\ UNCHANGED <<aircraft_data, table_rows, alerts_content, active_filters,
                 checkbox_value, panel_queue, app_queue, key_queue, exited,
                 n_inputs, icao_type, category>>

\* the callback of set_timer(10, self.fetch_and_update): a timer set with
\* set_timer fires once; up to the requests.get
timer_callback ==
  /\ Running /\ LoopFree
  /\ timer = "armed"
  /\ timer' = "fired"
  /\ inflight' = Append(inflight, "timer")
  /\ UNCHANGED <<aircraft_data, table_rows, alerts_content, lines, active_filters,
                 checkbox_value, panel_queue, app_queue, key_queue, mounted, exited,
                 n_inputs, icao_type, category>>

\* SnapshotAfter without the assignment of the except branch
SnapshotKeptOnError(parsed, old) ==
  IF parsed.error # "" THEN old ELSE parsed.new_aircraft

\* SnapshotAfter extending the list held instead of replacing it
SnapshotMerged(parsed, old) ==
  IF parsed.error # "" THEN <<>> ELSE old \o parsed.new_aircraft

\* self.aircraft_data after fetch_aircraft_data: new_aircraft, or [] in the
\* except branch
SnapshotAfter(parsed, old) ==
  IF parsed.error # "" THEN <<>> ELSE parsed.new_aircraft

\* fetch_and_update from the return (or raise) of requests.get to its end,
\* parsed being what the try block of fetch_aircraft_data made of the
\* response: the rest of fetch_aircraft_data, update_aircraft_table,
\* update_alerts and the closing log line
finish_cycle(parsed) ==
  /\ ~exited
  /\ inflight # <<>>
  /\ LET data == SnapshotAfter(parsed, aircraft_data)
         log1 == IF parsed.error # ""
                 THEN add_message(lines, LogLine("API Error", 0, parsed.error))
                 ELSE add_message(lines, LogLine("Fetched military aircraft", parsed.count, ""))
         rows == FilteredRows(data, Deref(ActiveFiltersRef), 1)
         log2 == add_message(log1, LogLine("Displaying aircraft", Len(rows), ""))
     IN  /\ aircraft_data' = data
         /\ table_rows' = rows
         /\ alerts_content' = AlertsContent(data)
         /\ lines' = add_message(log2, LogLine("Data refreshed.", 0, ""))
  /\ inflight' = Tail(inflight)
  /\ UNCHANGED <<active_filters, checkbox_value, panel_queue, app_queue, key_queue,
                 timer, mounted, exited, n_inputs, icao_type, category>>

\* fetch_and_update once requests.get has returned (or raised) resp
fetch_and_update(resp) ==
  /\ resp \in Responses
  /\ finish_cycle(Parsed[resp])

\* the user clicks the checkbox of category c: its value flips and
\* Checkbox.Changed is posted to the FilterPanel
click_checkbox(c) ==
  /\ Running
  /\ n_inputs < MaxInputs
  /\ c \in ToggleCats
  /\ n_inputs' = n_inputs + 1
  /\ checkbox_value' = [checkbox_value EXCEPT ![c] = ~checkbox_value[c]]
  /\ panel_queue' = Append(panel_queue, [cat_key |-> c, value |-> ~checkbox_value[c]])
  /\ UNCHANGED <<aircraft_data, table_rows, alerts_content, lines, active_filters,
                 app_queue, key_queue, timer, inflight, mounted, exited,
                 icao_type, category>>

\* the user presses q, r or d (BINDINGS)
press_key(action) ==
  /\ Running
  /\ n_inputs < MaxInputs
  /\ action \in KeyActions
  /\ n_inputs' = n_inputs + 1
  /\ key_queue' = Append(key_queue, action)
  /\ UNCHANGED <<aircraft_data, table_rows, alerts_content, lines, active_filters,
                 checkbox_value, panel_queue, app_queue, timer, inflight, mounted,
                 exited, icao_type, category>>

on_checkbox_changed ==
  /\ Running /\ LoopFree
  /\ panel_queue # <<>>
  /\ LET event == Head(panel_queue)
     IN  active_filters' = Toggle(active_filters, event.cat_key, event.value)
  /\ panel_queue' = Tail(panel_queue)
  /\ app_queue' = Append(app_queue, FiltersChanged(ActiveFiltersRef))
  /\ UNCHANGED <<aircraft_data, table_rows, alerts_content, lines, checkbox_value,
                 key_queue, timer, inflight, mounted, exited, n_inputs,
                 icao_type, category>>

\* on_filter_panel_filters_changed logging the change without updating the views
filters_changed_log_only ==
  /\ Running /\ LoopFree
  /\ app_queue # <<>>
  /\ app_queue' = Tail(app_queue)
  /\ lines' = add_message(lines, LogLine("Filters updated - reapplying", 0, ""))
  /\ UNCHANGED <<aircraft_data, table_rows, alerts_content, active_filters,
                 checkbox_value, panel_queue, key_queue, timer, inflight,
                 mounted, exited, n_inputs, icao_type, category>>

on_filter_panel_filters_changed ==
  /\ Running /\ LoopFree
  /\ app_queue # <<>>
  /\ app_queue' = Tail(app_queue)
  /\ LET log1 == add_message(lines, LogLine("Filters updated - reapplying", 0, ""))
         rows == FilteredRows(aircraft_data, Deref(ActiveFiltersRef), 1)
     IN  /\ table_rows' = rows
         /\ lines' = add_message(log1, LogLine("Displaying aircraft", Len(rows), ""))
  /\ alerts_content' = AlertsContent(aircraft_data)
  /\ UNCHANGED <<aircraft_data, active_filters, checkbox_value, panel_queue,
                 key_queue, timer, inflight, mounted, exited, n_inputs,
                 icao_type, category>>

\* action_refresh_now, up to the requests.get of its fetch_and_update call
action_refresh_now ==
  /\ Running /\ LoopFree
  /\ key_queue # <<>> /\ Head(key_queue) = "refresh_now"
  /\ key_queue' = Tail(key_queue)
  /\ lines' = add_message(lines, LogLine("Manual refresh requested", 0, ""))
  /\ inflight' = Append(inflight, "manual")
  /\ UNCHANGED <<aircraft_data, table_rows, alerts_content, active_filters,
                 checkbox_value, panel_queue, app_queue, timer, mounted, exited,
                 n_inputs, icao_type, category>>

\* action_clear_debug also starting a refresh cycle
clear_debug_and_refresh ==
  /\ Running /\ LoopFree
  /\ key_queue # <<>> /\ Head(key_queue) = "clear_debug"
  /\ key_queue' = Tail(key_queue)
  /\ lines' = add_message(<<>>, LogLine("Debug log cleared", 0, ""))
  /\ inflight' = Append(inflight, "manual")
  /\ UNCHANGED <<aircraft_data, table_rows, alerts_content, active_filters,
                 checkbox_value, panel_queue, app_queue, timer, mounted,
                 exited, n_inputs, icao_type, category>>

action_clear_debug ==
  /\ Running /\ LoopFree
  /\ key_queue # <<>> /\ Head(key_queue) = "clear_debug"
  /\ key_queue' = Tail(key_queue)
  /\ lines' = add_message(<<>>, LogLine("Debug log cleared", 0, ""))
  /\ UNCHANGED <<aircraft_data, table_rows, alerts_content, active_filters,
                 checkbox_value, panel_queue, app_queue, timer, inflight, mounted,
                 exited, n_inputs, icao_type, category>>

\* the quit binding: the app exits
action_quit ==
  /\ Running /\ LoopFree
  /\ key_queue # <<>> /\ Head(key_queue) = "quit"
  /\ key_queue' = Tail(key_queue)
  /\ exited' = TRUE
  /\ UNCHANGED <<aircraft_data, table_rows, alerts_content, lines, active_filters,
                 checkbox_value, panel_queue, app_queue, timer, inflight, mounted,
                 n_inputs, icao_type, category>>

FetchReturns == \E resp \in Responses : fetch_and_update(resp)

ClickCheckbox == \E c \in ToggleCats : click_checkbox(c)

PressKey == \E action \in KeyActions : press_key(action)

Next ==
  \/ on_mount
  \/ timer_callback
  \/ FetchReturns
  \/ ClickCheckbox
  \/ PressKey
  \/ on_checkbox_changed
  \/ on_filter_panel_filters_changed
  \/ action_refresh_now
  \/ action_clear_debug
  \/ action_quit

Spec == Init /\ [][Next]_vars

FairSpec ==
  /\ Spec
  /\ WF_vars(on_mount)
  /\ WF_vars(timer_callback)
  /\ WF_vars(FetchReturns)
  /\ WF_vars(on_checkbox_changed)
  /\ WF_vars(on_filter_panel_filters_changed)
  /\ WF_vars(action_refresh_now)
  /\ WF_vars(action_clear_debug)
  /\ WF_vars(action_quit)

(* --------------------- the classifier on its own ----------------------- *)
SuffixChars == {"0", "4", "C"}

RECURSIVE SeqsUpTo(_, _)
SeqsUpTo(S, n) ==
  IF n = 0 THEN {<<>>}
  ELSE LET shorter == SeqsUpTo(S, n - 1)
       IN  shorter \cup {Append(s, x) : s \in shorter, x \in S}

Suffixes == SeqsUpTo(SuffixChars, MaxSuffix)

DropLast(s) == SubSeq(s, 1, Len(s) - 1)

Prefixes == {TYPE_TO_CATEGORY[i].prefix : i \in 1..Len(TYPE_TO_CATEGORY)}

\* arguments of map_type_to_category: None, "", and every declared prefix, whole
\* or short of its last character, in upper and in lower case, followed by a suffix
ClassifyInputs ==
  {None, <<>>}
    \cup {p \o s : p \in Prefixes, s \in Suffixes}
    \cup {lower(p) \o s : p \in Prefixes, s \in Suffixes}
    \cup {DropLast(p) \o s : p \in Prefixes, s \in Suffixes}

InitClassify ==
  /\ InitApp
  /\ icao_type \in ClassifyInputs
  /\ category = NotComputed

call_map_type_to_category ==
  /\ category = NotComputed
  /\ category' = map_type_to_category(icao_type)
  /\ UNCHANGED <<aircraft_data, table_rows, alerts_content, lines, active_filters,
                 checkbox_value, panel_queue, app_queue, key_queue, timer, inflight,
                 mounted, exited, n_inputs, icao_type>>

NextClassify == call_map_type_to_category

SpecClassify == InitClassify /\ [][NextClassify]_vars

(* ============================ properties =============================== *)
LastLine == lines[Len(lines)]

\* a response on which the try block of fetch_aircraft_data raises
ResponseFails(resp) ==
  \/ resp.error # ""
  \/ resp.has_ac /\ \E i \in 1..Len(resp.ac) : EntryError(resp.ac[i]) # ""

\* the exception it raises: the transport's, or that of the first bad entry
ResponseError(resp) ==
  IF resp.error # "" THEN resp.error
  ELSE EntryError(resp.ac[CHOOSE i \in 1..Len(resp.ac) :
                            /\ EntryError(resp.ac[i]) # ""
                            /\ \A j \in 1..(i - 1) : EntryError(resp.ac[j]) = ""])

\* C1: a refresh cycle whose fetch or parse fails (transport failure, HTTP
\* status, malformed body, or an unparsable entry at any position) leaves the
\* snapshot empty whatever it held, the table without rows and the alert view
\* on the placeholder, and the log ends with the error entry followed by the
\* cycle's two closing lines.
C1_FailedCycleClears ==
  [][\A resp \in Responses :
       (fetch_and_update(resp) /\ ResponseFails(resp)) =>
         /\ aircraft_data' = <<>>
         /\ table_rows' = <<>>
         /\ alerts_content' = Placeholder
         /\ Len(lines') >= 3
         /\ lines'[Len(lines') - 2] = LogLine("API Error", 0, ResponseError(resp))
         /\ \A i \in 1..3 : Len(lines) >= i =>
              lines'[Len(lines') - 2 - i] = lines[Len(lines) + 1 - i]]_vars

\* a failed cycle has just ended after an earlier cycle stored three records
C1_Witness ==
  /\ Len(lines) >= 4
  /\ LastLine.msg = "Data refreshed."
  /\ lines[Len(lines) - 2].msg = "API Error"
  /\ lines[Len(lines) - 2].err = "ValueError"
  /\ lines[Len(lines) - 3].msg = "Data refreshed."
  /\ \E i \in 1..Len(lines) : lines[i] = LogLine("Fetched military aircraft", 3, "")
  /\ aircraft_data = <<>>
  /\ inflight = <<>>

\* C2: with no user input at all, timer-driven refresh cycles recur for ever
\* after startup: each one is followed by a later one.
C2_TimerCyclesRecur == <>(n_inputs > 0) \/ []<><<timer_callback>>_vars

\* C3: every declared prefix decides the category of every type code that
\* begins with it, in any letter case.
C3_EveryDeclaredPrefixDecides ==
  (category # NotComputed /\ icao_type # None) =>
    \A i \in 1..Len(TYPE_TO_CATEGORY) :
      startswith(upper(icao_type), TYPE_TO_CATEGORY[i].prefix) =>
        category = TYPE_TO_CATEGORY[i].cat

\* the table entries whose prefix the upper-cased code begins with
Matching(code) ==
  {i \in 1..Len(TYPE_TO_CATEGORY) : startswith(upper(code), TYPE_TO_CATEGORY[i].prefix)}

\* C4: map_type_to_category returns "other" for None and "", and otherwise
\* the category of the earliest-declared entry whose prefix begins the
\* upper-cased code, "other" when there is none.
C4_FirstDeclaredMatchWins ==
  category # NotComputed =>
    IF icao_type = None \/ icao_type = <<>> \/ Matching(icao_type) = {}
    THEN category = "other"
    ELSE \E i \in Matching(icao_type) :
           /\ \A j \in Matching(icao_type) : i <= j
           /\ category = TYPE_TO_CATEGORY[i].cat

\* a lower-case code that two entries of different categories match has been
\* classified by the earlier one
C4_Witness ==
  /\ category # NotComputed
  /\ icao_type # None
  /\ icao_type # upper(icao_type)
  /\ \E i, j \in Matching(icao_type) :
       /\ i < j
       /\ TYPE_TO_CATEGORY[i].cat # TYPE_TO_CATEGORY[j].cat
       /\ category = TYPE_TO_CATEGORY[i].cat

\* the steps that end with a projection: the tail of fetch_and_update and
\* the filter-change handler
Projects == FetchReturns \/ on_filter_panel_filters_changed

\* the rows of the snapshot records whose category is active, in snapshot order
RowsOfActive ==
  LET shown == SelectSeq(aircraft_data, LAMBDA ac : ac.category \in active_filters)
  IN  [k \in 1..Len(shown) |-> TableRow(shown[k])]

TableShowsActive == table_rows = RowsOfActive

\* C5: after every projection the table rows are exactly the snapshot records
\* whose category is in the active filter set, in snapshot order.
C5_TableIsFilteredSnapshot == [][Projects => TableShowsActive']_vars

\* the filter-change handler has projected a three-record snapshot with
\* fighters filtered out: two rows are left, the bomber's before the transport's
C5_Witness ==
  /\ Len(aircraft_data) = 3
  /\ "fighter" \notin active_filters
  /\ Len(table_rows) = 2
  /\ table_rows[1][2] = B52_LOWER
  /\ table_rows[2][2] = C130
  /\ lines # <<>> /\ LastLine = LogLine("Displaying aircraft", 2, "")
  /\ app_queue = <<>>

\* the alert lines of the airborne fighters and bombers of the whole snapshot
AirborneOffensive ==
  LET hit == SelectSeq(aircraft_data,
                       LAMBDA ac : ac.category \in {"fighter", "bomber"} /\ ac.altitude > 0)
  IN  [k \in 1..Len(hit) |-> AlertLine(hit[k])]

AlertsShowAirborneOffensive ==
  alerts_content = IF AirborneOffensive = <<>> THEN Placeholder
                   ELSE [placeholder |-> FALSE, alerts |-> AirborneOffensive]

\* C6: after every projection the alert rows are the records of the whole
\* snapshot with category fighter or bomber and altitude > 0, in snapshot
\* order, whatever the active filter set is; a grounded one is never among them.
C6_AlertsIgnoreFilters == [][Projects => AlertsShowAirborneOffensive']_vars

\* with fighter and bomber both disabled the alert view still lists the
\* airborne fighter, and not the grounded bomber of the same snapshot
C6_Witness ==
  /\ "fighter" \notin active_filters
  /\ "bomber" \notin active_filters
  /\ app_queue = <<>>
  /\ Len(aircraft_data) = 3
  /\ aircraft_data[2].category = "bomber" /\ aircraft_data[2].altitude = 0
  /\ Len(table_rows) = 1
  /\ ~alerts_content.placeholder
  /\ Len(alerts_content.alerts) = 1
  /\ alerts_content.alerts[1][2] = F16
  /\ lines # <<>> /\ LastLine.msg = "Displaying aircraft"

\* handling an input that has arrived: a checkbox change or a key action
HandlesInput ==
  \/ on_checkbox_changed
  \/ action_refresh_now
  \/ action_clear_debug
  \/ action_quit

\* C7: while a fetch is in flight, an input that has arrived (a filter toggle
\* or a control command) can be handled before the fetch completes.
C7_InputHandledDuringFetch ==
  (Running /\ inflight # <<>> /\ (panel_queue # <<>> \/ key_queue # <<>>))
    => ENABLED HandlesInput

\* C8: at most one refresh cycle is in flight, and from its fetch to its end
\* nothing else writes the snapshot, the views, the filter set or the log: a
\* trigger arriving meanwhile only joins a queue.
C8_CyclesNeverInterleave ==
  [][/\ Len(inflight') <= 1
     /\ (inflight # <<>> /\ inflight' # <<>>) =>
          UNCHANGED <<aircraft_data, table_rows, alerts_content, lines,
                      active_filters, timer, inflight>>]_vars

\* a manual refresh is queued behind the startup cycle's fetch while the
\* timer is armed
C8_Witness ==
  /\ inflight = <<"startup">>
  /\ timer = "armed"
  /\ key_queue # <<>> /\ Head(key_queue) = "refresh_now"

\* the set a queued notification carries
Payload(i) == Deref(app_queue[i].filters)

\* C9: the set a notification carries is a copy: a later toggle does not
\* change the contents of a notification still waiting for delivery.
C9_PayloadIsACopy ==
  [][\A i \in 1..Len(app_queue) :
       Len(app_queue') >= Len(app_queue) => Payload(i)' = Payload(i)]_vars

\* C10: whenever the next checkbox change turns category c off, turning c off
\* and then on again gives back the active set held before, with every other
\* category's membership as it was.
C10_OffThenOnRestores ==
  \A c \in CategoryKeys :
    (panel_queue # <<>> /\ Head(panel_queue) = [cat_key |-> c, value |-> FALSE]) =>
      Toggle(Toggle(active_filters, c, FALSE), c, TRUE) = active_filters

\* the user has clicked one checkbox twice: its off and its on change are
\* both waiting to be handled
C10_Witness ==
  /\ Len(panel_queue) = 2
  /\ \E c \in active_filters :
       panel_queue = <<[cat_key |-> c, value |-> FALSE], [cat_key |-> c, value |-> TRUE]>>

(* ------------------- the filter handlers on their own ------------------- *)
\* the snapshots a successful cycle stores
StoredSnapshots ==
  {Parsed[resp].new_aircraft : resp \in {r \in Responses : Parsed[r].error = ""}}

\* Checkbox.Changed messages of either value
ChangedEvents == [cat_key : ToggleCats, value : BOOLEAN]

\* the app at rest after a cycle, some filters off, the views projected and
\* the log just cleared; the Checkbox.Changed messages waiting are of any
\* value, also the one the category already has
InitToggle ==
  /\ aircraft_data \in StoredSnapshots
  /\ active_filters \in {CategoryKeys \ off : off \in SUBSET ToggleCats}
  /\ checkbox_value = [c \in CategoryKeys |-> c \in active_filters]
  /\ table_rows = FilteredRows(aircraft_data, active_filters, 1)
  /\ alerts_content = AlertsContent(aircraft_data)
  /\ lines = <<LogLine("Debug log cleared", 0, "")>>
  /\ panel_queue \in SeqsUpTo(ChangedEvents, MaxInputs)
  /\ app_queue = <<>>
  /\ key_queue = <<>>
  /\ timer = "fired"
  /\ inflight = <<>>
  /\ mounted = TRUE
  /\ exited = FALSE
  /\ n_inputs = 0
  /\ icao_type = None
  /\ category = NotComputed

NextToggle ==
  \/ on_checkbox_changed
  \/ on_filter_panel_filters_changed

SpecToggle == InitToggle /\ [][NextToggle]_vars

\* the category of the change being handled has the membership the change asks for
ChangeAsksNothing ==
  (Head(panel_queue).cat_key \in active_filters) <=> Head(panel_queue).value

\* C11: toggle is idempotent: handling a change to the membership a category
\* already has leaves the active set, the table rows and the alert rows as
\* they were, also through the re-projection it triggers, and applying the
\* change handled once more gives the same active set again.
C11_ToggleIdempotent ==
  [][/\ on_checkbox_changed =>
          /\ ChangeAsksNothing =>
               /\ active_filters' = active_filters
               /\ table_rows' = table_rows
               /\ alerts_content' = alerts_content
          /\ Toggle(active_filters', Head(panel_queue).cat_key, Head(panel_queue).value)
               = active_filters'
     /\ (on_filter_panel_filters_changed /\ TableShowsActive /\ AlertsShowAirborneOffensive) =>
          /\ table_rows' = table_rows
          /\ alerts_content' = alerts_content]_vars

\* one change has been handled and re-projected, and it asked for the
\* membership held: fighter is still off as its checkbox says, and the table
\* still shows the two other records
C11_Witness ==
  /\ panel_queue = <<>> /\ app_queue = <<>>
  /\ Len(lines) = 3
  /\ lines[2] = LogLine("Filters updated - reapplying", 0, "")
  /\ active_filters = {c \in CategoryKeys : checkbox_value[c]}
  /\ "fighter" \notin active_filters
  /\ Len(aircraft_data) = 3
  /\ Len(table_rows) = 2
  /\ ~alerts_content.placeholder

(* -------------------------- a log about to fill ------------------------- *)
\* what one manual refresh that fetches no aircraft writes to the log
ManualCycleLines ==
  <<LogLine("Manual refresh requested", 0, ""),
    LogLine("Fetched military aircraft", 0, ""),
    LogLine("Displaying aircraft", 0, ""),
    LogLine("Data refreshed.", 0, "")>>

\* what one filter change writes while the snapshot is empty
FilterChangeLines ==
  <<LogLine("Filters updated - reapplying", 0, ""),
    LogLine("Displaying aircraft", 0, "")>>

\* the log after clear-log, cycles manual refreshes and changes filter changes
RestLog(cycles, changes) ==
  [i \in 1..(1 + 4 * cycles + 2 * changes) |->
     IF i = 1 THEN LogLine("Debug log cleared", 0, "")
     ELSE IF i <= 1 + 4 * cycles THEN ManualCycleLines[((i - 2) % 4) + 1]
     ELSE FilterChangeLines[((i - 2) % 2) + 1]]

\* manual refreshes that leave the log three lines short of max_lines
CyclesToFill == (max_lines - 4) \div 4

\* the app at rest with an empty snapshot, long after startup: the log was
\* cleared once and holds max_lines - 3 lines, or max_lines - 1 after the
\* fighter checkbox was then clicked off
InitLog ==
  /\ \E changes \in {0, 1} :
       /\ lines = RestLog(CyclesToFill, changes)
       /\ active_filters = IF changes = 1 THEN CategoryKeys \ {"fighter"} ELSE CategoryKeys
  /\ checkbox_value = [c \in CategoryKeys |-> c \in active_filters]
  /\ aircraft_data = <<>>
  /\ table_rows = <<>>
  /\ alerts_content = Placeholder
  /\ panel_queue = <<>>
  /\ app_queue = <<>>
  /\ key_queue = <<>>
  /\ timer = "fired"
  /\ inflight = <<>>
  /\ mounted = TRUE
  /\ exited = FALSE
  /\ n_inputs = 0
  /\ icao_type = None
  /\ category = NotComputed

NextLog ==
  \/ FetchReturns
  \/ ClickCheckbox
  \/ PressKey
  \/ on_checkbox_changed
  \/ on_filter_panel_filters_changed
  \/ action_refresh_now
  \/ action_clear_debug
  \/ action_quit

SpecLog == InitLog /\ [][NextLog]_vars

\* old lines a step that adds added lines must drop
Dropped(added) ==
  IF Len(lines) + added > max_lines THEN Len(lines) + added - max_lines ELSE 0

\* the step added 1 to 4 lines and dropped only the oldest lines, and only as
\* many as the maximum forces: the lines kept are the newest old ones, in order
RingStep ==
  \E added \in 1..4 :
    /\ Len(lines') = Len(lines) + added - Dropped(added)
    /\ SubSeq(lines', 1, Len(lines) - Dropped(added))
         = SubSeq(lines, Dropped(added) + 1, Len(lines))

\* C12: the log never holds more than max_lines entries; a step that logs
\* ends with its newest line last and, when the log is full, drops exactly
\* the oldest entries; clear-log leaves only its own line.
C12_LogIsBoundedRing ==
  [][/\ Len(lines') <= max_lines
     /\ action_refresh_now =>
          RingStep /\ lines'[Len(lines')] = LogLine("Manual refresh requested", 0, "")
     /\ FetchReturns =>
          RingStep /\ lines'[Len(lines')] = LogLine("Data refreshed.", 0, "")
     /\ on_filter_panel_filters_changed =>
          RingStep /\ lines'[Len(lines')].msg = "Displaying aircraft"
     /\ action_clear_debug => lines' = <<LogLine("Debug log cleared", 0, "")>>
     /\ (ClickCheckbox \/ PressKey \/ on_checkbox_changed \/ action_quit) =>
          lines' = lines]_vars

\* the log is full and its oldest line, the one clear-log wrote, has been
\* dropped by a refresh cycle that has just ended
C12_Witness ==
  /\ Len(lines) = max_lines
  /\ lines[1] = LogLine("Manual refresh requested", 0, "")
  /\ lines[Len(lines)] = LogLine("Data refreshed.", 0, "")
  /\ lines[Len(lines) - 3] = LogLine("Manual refresh requested", 0, "")

\* a log line that carries the outcome of a fetch
IsOutcome(line) == line.msg \in {"Fetched military aircraft", "API Error"}

\* the outcome lines of the log
Outcomes == SelectSeq(lines, IsOutcome)

\* C13: every refresh cycle, successful or failed, logs exactly one line
\* carrying its outcome: on success the number of records received, which is
\* the number of records of the snapshot just stored; on failure the error.
\* No other step logs one.
C13_OneOutcomePerCycle ==
  [][/\ \A resp \in Responses :
          fetch_and_update(resp) =>
            /\ Outcomes' = Append(Outcomes,
                 IF ResponseFails(resp)
                 THEN LogLine("API Error", 0, ResponseError(resp))
                 ELSE LogLine("Fetched military aircraft", Len(aircraft_data'), ""))
            /\ ~ResponseFails(resp) =>
                 Len(aircraft_data') = (IF resp.has_ac THEN Len(resp.ac) ELSE 0)
     /\ ~FetchReturns => (Outcomes' = Outcomes \/ Outcomes' = <<>>)]_vars

\* three cycles have ended, the startup cycle failing on a bad entry and the
\* last storing the three records it received
C13_Witness ==
  /\ inflight = <<>>
  /\ Len(Outcomes) = 3
  /\ Outcomes[1] = LogLine("API Error", 0, "ValueError")
  /\ Outcomes[3] = LogLine("Fetched military aircraft", 3, "")
  /\ Len(aircraft_data) = 3
  /\ lines[Len(lines) - 2] = Outcomes[3]

(* ----------------------- one cycle on a wide feed ----------------------- *)
USAF == <<"U","S","A","F">>

\* values of the fields of a feed entry: absent, empty, blank, defaulting,
\* negative and out-of-range ones among them
FlightValues == {JNull, JStr(<<>>), JStr(<<" ", " ">>), JStr(<<"V","I","P","E","R","1"," ">>)}

TypeValues == {JNull, JStr(<<>>), JStr(F16), JStr(<<"h","6","0">>), JStr(<<"Z","Z","9">>)}

OwnerValues == {JNull, JStr(<<>>), JStr(USAF)}

AltitudeValues ==
  {JNull, JStr(GROUND), JNum(0), JNum(0 - 100), JNum(30000), JStr(<<"n","/","a">>)}

SpeedValues == {JNull, JNum(0 - 5), JNum(450)}

TrackValues == {JNull, JNum(90), JNum(360), JNum(0 - 10)}

WideEntries ==
  {[is_object |-> TRUE, flight |-> f, t |-> t, owner |-> o, alt_baro |-> a,
    gs |-> g, track |-> h] :
     f \in FlightValues, t \in TypeValues, o \in OwnerValues,
     a \in AltitudeValues, g \in SpeedValues, h \in TrackValues}

GroundedFighter == [Fighter EXCEPT !.alt_baro = JStr(GROUND)]

PairEntries == {Fighter, GroundedFighter, GroundedBomber, Transport}

\* documents of one entry of any shape, and of two well-formed entries
FeedResponses ==
  {Document(TRUE, <<ac>>) : ac \in WideEntries}
    \cup {Document(TRUE, <<a, b>>) : a \in PairEntries, b \in PairEntries}

\* the app inside the requests.get of a manual refresh, the log cleared
\* before it, holding a three-record snapshot
InitFeed ==
  /\ aircraft_data = Parsed[Document(TRUE, <<Fighter, GroundedBomber, Transport>>)].new_aircraft
  /\ active_filters = CategoryKeys
  /\ checkbox_value = [c \in CategoryKeys |-> TRUE]
  /\ table_rows = FilteredRows(aircraft_data, active_filters, 1)
  /\ alerts_content = AlertsContent(aircraft_data)
  /\ lines = <<LogLine("Debug log cleared", 0, ""), LogLine("Manual refresh requested", 0, "")>>
  /\ panel_queue = <<>>
  /\ app_queue = <<>>
  /\ key_queue = <<>>
  /\ timer = "fired"
  /\ inflight = <<"manual">>
  /\ mounted = TRUE
  /\ exited = FALSE
  /\ n_inputs = 1
  /\ icao_type = None
  /\ category = NotComputed

feed_returns == \E resp \in FeedResponses : finish_cycle(ParseResponse(resp))

NextFeed == feed_returns

SpecFeed == InitFeed /\ [][NextFeed]_vars

\* C14: every record of the snapshot has a category that is one of the ten
\* tags, and two records with the same type code have the same category.
C14_CategoryClosedAndByType ==
  \A i \in 1..Len(aircraft_data) :
    /\ aircraft_data[i].category \in
         {"fighter", "bomber", "tanker", "transport", "awacs",
          "helicopter", "uav", "special", "trainer", "other"}
    /\ \A j \in 1..Len(aircraft_data) :
         aircraft_data[i].aircraft_type = aircraft_data[j].aircraft_type
           => aircraft_data[i].category = aircraft_data[j].category

\* the cycle stored a record whose type matches no prefix, as "other"
C14_Witness ==
  /\ inflight = <<>>
  /\ Len(aircraft_data) = 1
  /\ aircraft_data[1].aircraft_type = <<"Z","Z","9">>
  /\ aircraft_data[1].category = "other"

\* C17: every record of the snapshot has altitude >= 0, ground speed >= 0
\* and 0 <= heading < 360.
C17_StoredRangesHold ==
  \A i \in 1..Len(aircraft_data) :
    /\ aircraft_data[i].altitude >= 0
    /\ aircraft_data[i].speed >= 0
    /\ aircraft_data[i].heading >= 0
    /\ aircraft_data[i].heading < 360

\* C18: every record of the snapshot has a non-empty callsign.
C18_CallsignNeverEmpty ==
  \A i \in 1..Len(aircraft_data) : aircraft_data[i].callsign # <<>>

\* the entries of a response that parses
Entries(resp) == IF resp.has_ac THEN resp.ac ELSE <<>>

\* C16: after a successful refresh cycle the snapshot is the list of the
\* records built from the response's entries, one per entry and in feed
\* order, whatever the snapshot held before.
C16_SnapshotReplacedWholesale ==
  [][\A resp \in Responses :
       (fetch_and_update(resp) /\ ~ResponseFails(resp)) =>
         /\ Len(aircraft_data') = Len(Entries(resp))
         /\ \A i \in 1..Len(Entries(resp)) :
              aircraft_data'[i] = MilitaryAircraft(Entries(resp)[i])]_vars

\* a two-record snapshot in feed order, stored over a three-record one
C16_Witness ==
  /\ inflight = <<>>
  /\ Len(aircraft_data) = 2
  /\ aircraft_data[1] = MilitaryAircraft(Transport)
  /\ aircraft_data[2] = MilitaryAircraft(Fighter)
  /\ Len(Outcomes) = 2
  /\ Outcomes[1] = LogLine("Fetched military aircraft", 3, "")
  /\ Outcomes[2] = LogLine("Fetched military aircraft", 2, "")

(* --------------------- the app at rest after startup -------------------- *)
\* the app at rest after its startup and timer cycles, holding a stored
\* snapshot with every filter on, the log just cleared and no input yet
InitRest ==
  /\ aircraft_data \in StoredSnapshots
  /\ active_filters = CategoryKeys
  /\ checkbox_value = [c \in CategoryKeys |-> TRUE]
  /\ table_rows = FilteredRows(aircraft_data, active_filters, 1)
  /\ alerts_content = AlertsContent(aircraft_data)
  /\ lines = <<LogLine("Debug log cleared", 0, "")>>
  /\ panel_queue = <<>>
  /\ app_queue = <<>>
  /\ key_queue = <<>>
  /\ timer = "fired"
  /\ inflight = <<>>
  /\ mounted = TRUE
  /\ exited = FALSE
  /\ n_inputs = 0
  /\ icao_type = None
  /\ category = NotComputed

\* from there on the event loop runs every handler that is ready
FairRest ==
  /\ InitRest /\ [][NextLog]_vars
  /\ WF_vars(FetchReturns)
  /\ WF_vars(on_checkbox_changed)
  /\ WF_vars(on_filter_panel_filters_changed)
  /\ WF_vars(action_refresh_now)
  /\ WF_vars(action_clear_debug)
  /\ WF_vars(action_quit)

\* both views are the projection of the current snapshot and filter set
ViewsCurrent == TableShowsActive /\ AlertsShowAirborneOffensive

\* no filter-change notification is undelivered and no cycle is in progress
NoEventPending == app_queue = <<>> /\ inflight = <<>>

\* C15: whenever no event is pending the table rows and the alert text are
\* the projection of the current snapshot and filter set; the step that
\* completes a refresh cycle ends with both views projected; and while the
\* app runs, a pending filter-change notification leads to a state where none
\* is pending and the views are projected with the active set.
C15_ViewsFollowInputs ==
  /\ [](NoEventPending => ViewsCurrent)
  /\ [][FetchReturns => ViewsCurrent']_vars
  /\ (app_queue # <<>>) ~> ((app_queue = <<>> /\ ViewsCurrent) \/ exited)

\* a cycle has stored three records after fighters were filtered out and the
\* change was delivered: nothing is pending and the table has the other two
C15_Witness ==
  /\ NoEventPending
  /\ active_filters = CategoryKeys \ {"fighter"}
  /\ Len(aircraft_data) = 3
  /\ Len(table_rows) = 2
  /\ LastLine = LogLine("Data refreshed.", 0, "")
  /\ \E i \in 1..Len(lines) : lines[i] = LogLine("Filters updated - reapplying", 0, "")

\* C19: the active filter set starts as the ten categories and only the
\* toggle handler changes it (no refresh cycle, manual refresh or clear-log
\* does); the toggle handler, the filter-change handler and clear-log leave
\* the snapshot as it is and start no fetch.
C19_FiltersAndSnapshotFramed ==
  /\ active_filters = {"fighter", "bomber", "tanker", "transport", "awacs",
                       "helicopter", "uav", "special", "trainer", "other"}
  /\ [][(active_filters' # active_filters) => on_checkbox_changed]_vars
  /\ [][(FetchReturns \/ action_refresh_now \/ action_clear_debug
           \/ timer_callback \/ on_mount) => UNCHANGED active_filters]_vars
  /\ [][(on_checkbox_changed \/ on_filter_panel_filters_changed
           \/ action_clear_debug) => UNCHANGED <<aircraft_data, inflight>>]_vars

\* fighters were toggled off and the change delivered, then the log was
\* cleared: the three records are still held and no fetch is in flight
C19_Witness ==
  /\ active_filters = CategoryKeys \ {"fighter"}
  /\ lines = <<LogLine("Debug log cleared", 0, "")>>
  /\ Len(aircraft_data) = 3
  /\ Len(table_rows) = 2
  /\ inflight = <<>>
  /\ app_queue = <<>>
  /\ key_queue = <<>>
====
